---- MODULE Spec2Model ----
(***************************************************************************)
(* Academic Assignment Helper backend (FastAPI + SQLAlchemy/PostgreSQL +   *)
(* pgvector): accounts and password hashing, JWT issue/validate, upload    *)
(* with webhook notification, analysis readers, similarity search.         *)
(*                                                                         *)
(* Every step of the model performs one operation of the program and       *)
(* leaves its response in resp; the properties are stated on resp and on   *)
(* the storage tables before and after the step.                           *)
(***************************************************************************)
EXTENDS Integers, Sequences, FiniteSets, TLC

(***************************************************************************)
(* Bounds of the model                                                     *)
(***************************************************************************)
MaxSlots == 2      \* register requests that may be in flight together
MaxSalt == 2       \* distinct bcrypt salts
MaxHeld == 1       \* tokens a client keeps
MaxClock == 36     \* hours the clock runs
TickHours == 12    \* hours between two observations of the clock
MaxFiles == 1      \* assignments uploaded
MaxAnalyses == 2   \* analysis rows the external workflow writes
MaxTs == 2         \* latest analyzed_at timestamp the workflow writes
MaxSources == 2    \* academic sources loaded
MaxTopK == 2       \* largest top_k asked for

(***************************************************************************)
(* Program constants                                                       *)
(***************************************************************************)
BCRYPT_MAX_BYTES == 72
JWT_EXPIRATION_HOURS == 24
MIN_PASSWORD_LENGTH == 6

(***************************************************************************)
(* Optional values: None is the empty set, Some(x) a singleton             *)
(***************************************************************************)
None == {}
Some(x) == {x}
Get(o) == CHOOSE x \in o : TRUE

NULL == "NULL"     \* SQL NULL / Python None of a string column

(***************************************************************************)
(* Strings.  A string is a sequence of characters, a character is the      *)
(* sequence of the bytes of its UTF-8 encoding.                            *)
(***************************************************************************)
ChA == <<97>>
ChB == <<98>>
ChE == <<195, 169>>

Rep(c, n) == [i \in 1..n |-> c]

RECURSIVE encode_utf8(_)
encode_utf8(s) == IF s = <<>> THEN <<>> ELSE Head(s) \o encode_utf8(Tail(s))

PwShort == Rep(ChA, MIN_PASSWORD_LENGTH - 1)
PwA == Rep(ChA, MIN_PASSWORD_LENGTH)
Pw72 == Rep(ChA, BCRYPT_MAX_BYTES)
PwLongB == Rep(ChA, BCRYPT_MAX_BYTES) \o <<ChB>>
PwMulti == Rep(ChA, BCRYPT_MAX_BYTES - 1) \o <<ChE>>

Passwords == {PwShort, PwA, Pw72, PwLongB, PwMulti}

\* further passwords for the hashing functions alone: the empty one, another
\* short one, and two that share their first 72 bytes with PwLongB and with
\* PwMulti (U+00C3 and U+00E9 both start with the byte 195)
ChAtilde == <<195, 131>>
PwEmpty == <<>>
PwB == Rep(ChB, MIN_PASSWORD_LENGTH)
PwLongE == Rep(ChA, BCRYPT_MAX_BYTES) \o <<ChE>>
PwMultiOther == Rep(ChA, BCRYPT_MAX_BYTES - 1) \o <<ChAtilde, ChB>>

HashPasswords == Passwords \cup {PwEmpty, PwB, PwLongE, PwMultiOther}

(***************************************************************************)
(* auth.py: password hashing                                               *)
(***************************************************************************)
truncate_bytes(password_bytes) ==
    IF Len(password_bytes) > BCRYPT_MAX_BYTES
    THEN SubSeq(password_bytes, 1, BCRYPT_MAX_BYTES)
    ELSE password_bytes

\* bcrypt.hashpw: a digest determined by the salt and the bytes hashed
bcrypt_hashpw(password_bytes, salt) == [salt |-> salt, digest |-> password_bytes]

\* bcrypt.checkpw: rehash under the salt of the stored hash and compare
bcrypt_checkpw(password_bytes, hashed) ==
    bcrypt_hashpw(password_bytes, hashed.salt) = hashed

get_password_hash(password, salt) ==
    bcrypt_hashpw(truncate_bytes(encode_utf8(password)), salt)

\* a verify_password that hands the whole encoding to the comparison
verify_password_untruncated(plain_password, hashed_password) ==
    bcrypt_checkpw(encode_utf8(plain_password), hashed_password)

verify_password(plain_password, hashed_password) ==
    bcrypt_checkpw(truncate_bytes(encode_utf8(plain_password)), hashed_password)


(***************************************************************************)
(* State                                                                   *)
(***************************************************************************)
VARIABLES
    students,          \* table students: rows [id, email, password_hash, student_id, plain]
    reg,               \* register requests in flight, by slot
    held,              \* tokens a client holds
    clock,             \* datetime.utcnow(), in hours
    resp,              \* the response of the operation the last step performed
    assignments,       \* table assignments
    analysis_results,  \* table analysis_results, written by the external workflow
    academic_sources,  \* table academic_sources
    up,                \* the upload request in flight
    webhook_calls      \* the POSTs made to the workflow webhook

vars == <<students, reg, held, clock, resp, assignments, analysis_results,
          academic_sources, up, webhook_calls>>

Slots == 1..MaxSlots
Emails == {"a@x.org", "b@x.org"}
StudentIds == {NULL, "", "S1"}
Salts == 1..MaxSalt
Faults == {"none", "hash", "commit", "refresh", "token"}

IdleSlot == [pc |-> "idle"]
IdleUpload == [pc |-> "idle"]

Response(op, req, status, detail, body) ==
    [op |-> op, req |-> req, status |-> status, detail |-> detail, body |-> body]

\* a step of a handler that has not answered yet
Pending(op, req) == Response(op, req, 0, "", None)

HTTPException(op, req, status_code, detail) == Response(op, req, status_code, detail, None)

(***************************************************************************)
(* auth.py: tokens.  A token is what jwt.encode signed: the claims and     *)
(* whether the signature is the one of JWT_SECRET_KEY; wellformed is FALSE *)
(* for a string that is no JWT at all.                                     *)
(***************************************************************************)
NoSub == "NONE"

create_access_token(data, expires_delta, now) ==
    LET expire == IF expires_delta # None /\ Get(expires_delta) # 0
                  THEN now + Get(expires_delta)
                  ELSE now + JWT_EXPIRATION_HOURS
    IN [wellformed |-> TRUE, signed |-> TRUE, sub |-> data.sub,
        exp |-> Some(expire), role |-> "student"]

\* jwt.decode: the claims, or the JWTError it raises: JWTError for a string
\* that is no JWT or a signature that does not verify, ExpiredSignatureError
\* (a JWTError) for an exp claim that has passed
jwt_decode(token, now) ==
    IF ~token.wellformed THEN [error |-> "JWTError", payload |-> None]
    ELSE IF ~token.signed THEN [error |-> "JWTError", payload |-> None]
    ELSE IF token.exp # None /\ Get(token.exp) < now
         THEN [error |-> "ExpiredSignatureError", payload |-> None]
    ELSE [error |-> "",
          payload |-> Some([sub |-> token.sub, exp |-> token.exp, role |-> token.role])]

credentials_exception ==
    [status_code |-> 401, detail |-> "Could not validate credentials"]

NoError == [status_code |-> 200, detail |-> ""]

StudentByEmail(email, studs) == {st \in studs : st.email = email}

\* a get_current_student that tells the caller the token has expired
get_current_student_expired(token, studs, now) ==
    LET decoded == jwt_decode(token, now)
    IN IF decoded.error = "ExpiredSignatureError"
       THEN [student |-> None,
             error |-> [status_code |-> 401, detail |-> "Token has expired"]]
       ELSE IF decoded.error # "" \/ Get(decoded.payload).sub = NoSub
                \/ StudentByEmail(Get(decoded.payload).sub, studs) = {}
       THEN [student |-> None, error |-> credentials_exception]
       ELSE [student |-> Some(CHOOSE st \in StudentByEmail(Get(decoded.payload).sub,
                                                           studs) : TRUE),
             error |-> NoError]

\* a get_current_student that refuses the tokens of an account once its
\* password is no longer PwA
get_current_student_revoking(token, studs, now) ==
    LET decoded == jwt_decode(token, now)
    IN IF decoded.error # "" \/ Get(decoded.payload).sub = NoSub
          \/ StudentByEmail(Get(decoded.payload).sub, studs) = {}
          \/ \E st \in StudentByEmail(Get(decoded.payload).sub, studs) : st.plain # PwA
       THEN [student |-> None, error |-> credentials_exception]
       ELSE [student |-> Some(CHOOSE st \in StudentByEmail(Get(decoded.payload).sub,
                                                           studs) : TRUE),
             error |-> NoError]

\* get_current_student: the account (student), or the HTTPException raised
get_current_student(token, studs, now) ==
    LET decoded == jwt_decode(token, now)
    IN IF decoded.error # ""
       THEN [student |-> None, error |-> credentials_exception]
       ELSE IF Get(decoded.payload).sub = NoSub
       THEN [student |-> None, error |-> credentials_exception]
       ELSE LET found == StudentByEmail(Get(decoded.payload).sub, studs)
            IN IF found = {}
               THEN [student |-> None, error |-> credentials_exception]
               ELSE [student |-> Some(CHOOSE st \in found : TRUE), error |-> NoError]

authenticate_student(email, password, studs) ==
    LET found == StudentByEmail(email, studs)
    IN IF found = {} THEN None
       ELSE LET student == CHOOSE st \in found : TRUE
            IN IF ~verify_password(password, student.password_hash) THEN None
               ELSE Some(student)

\* What a client may present as a bearer token: a token it holds, a string
\* that is no JWT, or a JWT it signed itself.  held records each token kept
\* with the time and the expires_delta of the call that issued it.
Garbage == [wellformed |-> FALSE, signed |-> FALSE, sub |-> NoSub, exp |-> None,
            role |-> ""]
Forged(email) == [wellformed |-> TRUE, signed |-> FALSE, sub |-> email,
                  exp |-> None, role |-> "student"]
Presentable(emails) ==
    {h.token : h \in held} \cup {Garbage} \cup {Forged(e) : e \in emails}

\* the client keeps the token of a response, or does not; it may forget
\* tokens it held
Keep(token, expires_delta) ==
    LET grant == [token |-> token, at |-> clock, expires_delta |-> expires_delta]
    IN held' \in {held} \cup
                 {h \cup {grant} : h \in {g \in SUBSET held : Cardinality(g) < MaxHeld}}

\* a call of create_access_token
issue_token(data, expires_delta) ==
    LET access_token == create_access_token(data, expires_delta, clock)
    IN /\ resp' = Response("create_access_token",
                           [data |-> data, expires_delta |-> expires_delta,
                            fault |-> "none"],
                           200, "", Some(access_token))
       /\ Keep(access_token, expires_delta)
       /\ UNCHANGED <<students, reg, clock, assignments, analysis_results,
                      academic_sources, up, webhook_calls>>

\* the dependency get_current_student of a request carrying the token
validate_token(token) ==
    LET auth == get_current_student(token, students, clock)
    IN /\ resp' = Response("get_current_student", [token |-> token, fault |-> "none"],
                           auth.error.status_code, auth.error.detail, auth.student)
       /\ UNCHANGED <<students, reg, held, clock, assignments, analysis_results,
                      academic_sources, up, webhook_calls>>

\* time passes
tick ==
    /\ clock + TickHours <= MaxClock
    /\ clock' = clock + TickHours
    /\ resp' = Pending("tick", [fault |-> "none"])
    /\ UNCHANGED <<students, reg, held, assignments, analysis_results,
                   academic_sources, up, webhook_calls>>

\* a call of get_password_hash
hash_password(password, salt) ==
    /\ resp' = Response("get_password_hash",
                        [password |-> password, salt |-> salt, fault |-> "none"],
                        200, "", Some(get_password_hash(password, salt)))
    /\ UNCHANGED <<students, reg, held, clock, assignments, analysis_results,
                   academic_sources, up, webhook_calls>>

\* a call of verify_password on the hash the last call made or was given
check_password(plain_password) ==
    /\ resp.op \in {"get_password_hash", "verify_password"}
    /\ LET hashed_password == IF resp.op = "get_password_hash" THEN Get(resp.body)
                              ELSE resp.req.hashed_password
       IN resp' = Response("verify_password",
                           [plain_password |-> plain_password,
                            hashed_password |-> hashed_password,
                            password |-> resp.req.password, fault |-> "none"],
                           200, "",
                           Some(verify_password(plain_password, hashed_password)))
    /\ UNCHANGED <<students, reg, held, clock, assignments, analysis_results,
                   academic_sources, up, webhook_calls>>

(***************************************************************************)
(* main.py: POST /auth/register.  The handler runs in three steps, each a  *)
(* statement that reads or writes the database, so that two requests can   *)
(* interleave: the email lookup, the student_id lookup, and the insert     *)
(* with its commit and the response.                                       *)
(***************************************************************************)
EmailRegistered == "Email already registered"
StudentIdRegistered == "Student ID is already registered"
RecordExists == "A record with this information already exists"
ErrorCreatingAccount == "Error creating account"

\* a register that never finds the email taken
email_exists_skipped(email, studs) == FALSE

email_exists(email, studs) == \E st \in studs : st.email = email

student_id_exists(student_id, studs) == \E st \in studs : st.student_id = student_id

\* `if student_data.student_id:` an absent and an empty student_id are falsy
Truthy(str) == str # NULL /\ str # ""

RegisterReq(d, existed, fault) ==
    [email |-> d.email, password |-> d.password, student_id |-> d.student_id,
     existed |-> existed, fault |-> fault]

register_check_email(s, email, password, student_id) ==
    LET d == [email |-> email, password |-> password, student_id |-> student_id]
        existed == \E st \in students : st.email = email
    IN /\ reg[s].pc = "idle"
       /\ IF email_exists(email, students)
          THEN /\ resp' = HTTPException("register", RegisterReq(d, existed, "none"),
                                        400, EmailRegistered)
               /\ reg' = reg
          ELSE /\ resp' = Pending("register", RegisterReq(d, existed, "none"))
               /\ reg' = [reg EXCEPT ![s] = [pc |-> "student_id", email |-> email,
                                             password |-> password,
                                             student_id |-> student_id,
                                             existed |-> existed]]
       /\ UNCHANGED <<students, held, clock, assignments, analysis_results,
                      academic_sources, up, webhook_calls>>

register_check_student_id(s) ==
    LET d == reg[s]
    IN /\ d.pc = "student_id"
       /\ IF Truthy(d.student_id) /\ student_id_exists(d.student_id, students)
          THEN /\ resp' = HTTPException("register", RegisterReq(d, d.existed, "none"),
                                        400, StudentIdRegistered)
               /\ reg' = [reg EXCEPT ![s] = IdleSlot]
          ELSE /\ resp' = Pending("register", RegisterReq(d, d.existed, "none"))
               /\ reg' = [reg EXCEPT ![s].pc = "commit"]
       /\ UNCHANGED <<students, held, clock, assignments, analysis_results,
                      academic_sources, up, webhook_calls>>

\* a table students without unique constraints
UniqueViolations_none(row, studs) == {}

\* The unique constraints of table students (models.py) that inserting the
\* row would violate.  NULLs never collide; an empty string does.
UniqueViolations(row, studs) ==
    {c \in {"email", "student_id"} :
        \/ c = "email" /\ \E st \in studs : st.email = row.email
        \/ c = "student_id" /\ row.student_id # NULL
                            /\ \E st \in studs : st.student_id = row.student_id}

\* The columns the statement text names.  str() of a database error carries
\* the message of the driver and may carry the statement that failed.
InsertStatementWords == {"email", "student_id"}

IntegrityErrorText(constraint, withStatement) ==
    {"duplicate", "unique", constraint}
        \cup (IF withStatement THEN InsertStatementWords ELSE {})

OperationalErrorText(withStatement) ==
    IF withStatement THEN InsertStatementWords ELSE {}

\* the except branch of register: error_str is the set of the words looked
\* for that occur in str(e).lower()
register_error(op, req, error_str) ==
    IF "unique" \in error_str \/ "duplicate" \in error_str
    THEN IF "email" \in error_str
         THEN HTTPException(op, req, 400, EmailRegistered)
         ELSE IF "student_id" \in error_str
         THEN HTTPException(op, req, 400, StudentIdRegistered)
         ELSE HTTPException(op, req, 400, RecordExists)
    ELSE HTTPException(op, req, 500, ErrorCreatingAccount)

NextId(rows) == Cardinality(rows) + 1

register_commit(s, fault, salt, withStatement) ==
    LET d == reg[s]
        req == RegisterReq(d, d.existed, fault)
        student == [id |-> NextId(students), email |-> d.email,
                    password_hash |-> get_password_hash(d.password, salt),
                    student_id |-> d.student_id, plain |-> d.password]
        violated == UniqueViolations(student, students)
    IN /\ d.pc = "commit"
       /\ reg' = [reg EXCEPT ![s] = IdleSlot]
       /\ IF fault = "hash"
          THEN /\ resp' = register_error("register", req, {})
               /\ UNCHANGED <<students, held>>
          ELSE IF fault = "commit"
          THEN /\ resp' = register_error("register", req,
                                         OperationalErrorText(withStatement))
               /\ UNCHANGED <<students, held>>
          ELSE IF violated # {}
          THEN /\ \E c \in violated :
                    resp' = register_error("register", req,
                                           IntegrityErrorText(c, withStatement))
               /\ UNCHANGED <<students, held>>
          ELSE /\ students' = students \cup {student}
               /\ IF fault = "refresh"
                  THEN /\ resp' = register_error("register", req,
                                                 OperationalErrorText(withStatement))
                       /\ held' = held
                  ELSE IF fault = "token"
                  THEN /\ resp' = register_error("register", req, {})
                       /\ held' = held
                  ELSE LET access_token ==
                               create_access_token([sub |-> student.email], None, clock)
                       IN /\ resp' = Response("register", req, 200, "",
                                              Some(access_token))
                          /\ Keep(access_token, None)
       /\ UNCHANGED <<clock, assignments, analysis_results, academic_sources, up,
                      webhook_calls>>

(***************************************************************************)
(* main.py: login, reset-password, change-password                         *)
(***************************************************************************)
IncorrectLogin == "Incorrect email or password"

login_response(op, req, student, now) ==
    IF student = None
    THEN HTTPException(op, req, 401, IncorrectLogin)
    ELSE Response(op, req, 200, "",
                  Some(create_access_token([sub |-> Get(student).email], None, now)))

login(email, password) ==
    LET student == authenticate_student(email, password, students)
    IN /\ resp' = login_response("login", [email |-> email, password |-> password],
                                 student, clock)
       /\ IF resp'.body = None THEN held' = held ELSE Keep(Get(resp'.body), None)
       /\ UNCHANGED <<students, reg, clock, assignments, analysis_results,
                      academic_sources, up, webhook_calls>>

login_for_access_token(username, password) ==
    LET student == authenticate_student(username, password, students)
    IN /\ resp' = login_response("login_for_access_token",
                                 [email |-> username, password |-> password],
                                 student, clock)
       /\ IF resp'.body = None THEN held' = held ELSE Keep(Get(resp'.body), None)
       /\ UNCHANGED <<students, reg, clock, assignments, analysis_results,
                      academic_sources, up, webhook_calls>>

PasswordFaults == {"none", "hash", "commit", "refresh"}

PasswordTooShort == "Password must be at least 6 characters long"

\* the try block of reset_password and of change_password: the new table and
\* whether the block raised
update_password(student, new_password, fault, salt, studs) ==
    IF fault \in {"hash", "commit"}
    THEN [students |-> studs, raised |-> TRUE]
    ELSE [students |-> (studs \ {student}) \cup
                       {[student EXCEPT
                           !.password_hash = get_password_hash(new_password, salt),
                           !.plain = new_password]},
          raised |-> (fault = "refresh")]

reset_password(email, new_password) ==
    LET req == [email |-> email, new_password |-> new_password, fault |-> "none"]
        found == StudentByEmail(email, students)
    IN /\ IF found = {}
          THEN /\ resp' = HTTPException("reset_password", req, 404, "Email not found")
               /\ students' = students
          ELSE IF Len(new_password) < MIN_PASSWORD_LENGTH
          THEN /\ resp' = HTTPException("reset_password", req, 400, PasswordTooShort)
               /\ students' = students
          ELSE \E fault \in PasswordFaults, salt \in Salts :
                  LET student == CHOOSE st \in found : TRUE
                      done == update_password(student, new_password, fault, salt,
                                              students)
                      tried == [req EXCEPT !.fault = fault]
                  IN /\ students' = done.students
                     /\ resp' = IF done.raised
                                THEN HTTPException("reset_password", tried, 500,
                                                   "Error resetting password")
                                ELSE Response("reset_password", tried, 200,
                                              "Password reset successfully", None)
       /\ UNCHANGED <<reg, held, clock, assignments, analysis_results,
                      academic_sources, up, webhook_calls>>

DifferentPassword == "New password must be different from current password"

\* a change_password that never compares the new password with the current one
same_as_current_never(new_password, password_hash) == FALSE

\* change_password line 263: the new password verifies against the stored hash
same_as_current(new_password, password_hash) ==
    verify_password(new_password, password_hash)

change_password(token, old_password, new_password) ==
    LET req == [token |-> token, old_password |-> old_password,
                new_password |-> new_password, fault |-> "none"]
        auth == get_current_student(token, students, clock)
    IN /\ IF auth.student = None
          THEN /\ resp' = HTTPException("change_password", req,
                                        auth.error.status_code, auth.error.detail)
               /\ students' = students
          ELSE LET current_student == Get(auth.student)
               IN IF ~verify_password(old_password, current_student.password_hash)
                  THEN /\ resp' = HTTPException("change_password", req, 401,
                                                "Incorrect current password")
                       /\ students' = students
                  ELSE IF Len(new_password) < MIN_PASSWORD_LENGTH
                  THEN /\ resp' = HTTPException("change_password", req, 400,
                                                PasswordTooShort)
                       /\ students' = students
                  ELSE IF same_as_current(new_password, current_student.password_hash)
                  THEN /\ resp' = HTTPException("change_password", req, 400,
                                                DifferentPassword)
                       /\ students' = students
                  ELSE \E fault \in PasswordFaults, salt \in Salts :
                          LET done == update_password(current_student, new_password,
                                                      fault, salt, students)
                              tried == [req EXCEPT !.fault = fault]
                          IN /\ students' = done.students
                             /\ resp' = IF done.raised
                                        THEN HTTPException("change_password", tried,
                                                           500,
                                                           "Error changing password")
                                        ELSE Response("change_password", tried, 200,
                                                      "Password changed successfully",
                                                      None)
       /\ UNCHANGED <<reg, held, clock, assignments, analysis_results,
                      academic_sources, up, webhook_calls>>

(***************************************************************************)
(* file_processor.py: text extraction and word count.  A text is a         *)
(* sequence of one-character strings; "?" stands for a byte sequence that  *)
(* is not valid UTF-8.                                                     *)
(***************************************************************************)
Whitespace == {" ", "\n", "\t"}

RECURSIVE lstrip(_)
lstrip(text) ==
    IF text # <<>> /\ Head(text) \in Whitespace THEN lstrip(Tail(text)) ELSE text

RECURSIVE rstrip(_)
rstrip(text) ==
    IF text # <<>> /\ text[Len(text)] \in Whitespace
    THEN rstrip(SubSeq(text, 1, Len(text) - 1))
    ELSE text

strip(text) == rstrip(lstrip(text))

\* content.decode('utf-8', errors='ignore')
decode_ignore(content) == SelectSeq(content, LAMBDA c : c # "?")

\* text = ""; for part in parts: text += part + "\n"
RECURSIVE join_lines(_)
join_lines(parts) ==
    IF parts = <<>> THEN <<>> ELSE Head(parts) \o <<"\n">> \o join_lines(Tail(parts))

extract_text_from_pdf(file) ==
    IF ~file.readable THEN [raised |-> TRUE, text |-> <<>>]
    ELSE [raised |-> FALSE, text |-> strip(join_lines(file.parts))]

extract_text_from_docx(file) ==
    IF ~file.readable THEN [raised |-> TRUE, text |-> <<>>]
    ELSE [raised |-> FALSE, text |-> strip(join_lines(file.parts))]

extract_text_from_file(file) ==
    IF file.extension = ".pdf" THEN extract_text_from_pdf(file)
    ELSE IF file.extension \in {".docx", ".doc"} THEN extract_text_from_docx(file)
    ELSE [raised |-> FALSE, text |-> decode_ignore(file.parts[1])]

\* a count of the characters that are not whitespace
RECURSIVE count_words_characters(_)
count_words_characters(text) ==
    IF text = <<>> THEN 0
    ELSE IF Head(text) \in Whitespace THEN count_words_characters(Tail(text))
    ELSE 1 + count_words_characters(Tail(text))

\* len(text.split()): the maximal runs of characters that are not whitespace
RECURSIVE count_words(_)
count_words(text) ==
    IF text = <<>> THEN 0
    ELSE IF Head(text) \in Whitespace THEN count_words(Tail(text))
    ELSE IF Len(text) = 1 \/ text[2] \in Whitespace THEN 1 + count_words(Tail(text))
    ELSE count_words(Tail(text))

TextHello == <<"H", "e", "l", "l", "o", " ", "w", "o", "r", "l", "d", " ", "f", "o", "o">>

FileHello == [filename |-> "hello.txt", extension |-> ".txt",
              parts |-> <<TextHello>>, readable |-> TRUE]
FileBadPdf == [filename |-> "bad.pdf", extension |-> ".pdf",
               parts |-> <<>>, readable |-> FALSE]
FileEmpty == [filename |-> "empty.txt", extension |-> ".txt",
              parts |-> << <<>> >>, readable |-> TRUE]
FileBlank == [filename |-> "blank.txt", extension |-> ".txt",
              parts |-> << <<" ", "\n", "\t">> >>, readable |-> TRUE]
FileBadBytes == [filename |-> "bytes.txt", extension |-> ".txt",
                 parts |-> << <<"a", "?", "b", " ", "?", " ", "c">> >>,
                 readable |-> TRUE]
FilePdfPages == [filename |-> "pages.pdf", extension |-> ".pdf",
                 parts |-> << <<"a", "b">>, <<" ", "c", "\t", "d", " ">> >>,
                 readable |-> TRUE]
FileDocx == [filename |-> "paras.docx", extension |-> ".docx",
             parts |-> << <<>>, <<"a">>, <<>> >>, readable |-> TRUE]

(***************************************************************************)
(* main.py: POST /upload.  Two steps: extraction and the commit of the     *)
(* Assignment, then the webhook call and the response.                     *)
(***************************************************************************)
UploadFaults == {"none", "commit", "refresh"}
WebhookOutcomes == {"success", "timeout", "connect_error", "http_status_error"}

ErrorProcessingFile == "Error processing file"

UploadReq(token, file, fault, outcome) ==
    [token |-> token, filename |-> file.filename, fault |-> fault,
     outcome |-> outcome]

\* an upload whose commit stores nothing
commit_assignment_lost(assignment, rows) == rows

\* db.add(assignment); db.commit(): the table after a commit that succeeded
commit_assignment(assignment, rows) == rows \cup {assignment}

upload_commit(token, file) ==
    LET auth == get_current_student(token, students, clock)
        extracted == extract_text_from_file(file)
    IN /\ up.pc = "idle"
       /\ IF auth.student = None
          THEN /\ resp' = HTTPException("upload", UploadReq(token, file, "none", "none"),
                                        auth.error.status_code, auth.error.detail)
               /\ UNCHANGED <<assignments, up>>
          ELSE IF extracted.raised
          THEN /\ resp' = HTTPException("upload", UploadReq(token, file, "none", "none"),
                                        500, ErrorProcessingFile)
               /\ UNCHANGED <<assignments, up>>
          ELSE \E fault \in UploadFaults :
                  LET req == UploadReq(token, file, fault, "none")
                      word_count == count_words(extracted.text)
                      assignment == [id |-> NextId(assignments),
                                     student_id |-> Get(auth.student).id,
                                     filename |-> file.filename,
                                     original_text |-> extracted.text,
                                     word_count |-> word_count]
                  IN IF fault = "commit"
                     THEN /\ resp' = HTTPException("upload", req, 500,
                                                   ErrorProcessingFile)
                          /\ UNCHANGED <<assignments, up>>
                     ELSE /\ Cardinality(assignments) < MaxFiles
                          /\ assignments' = commit_assignment(assignment, assignments)
                          /\ IF fault = "refresh"
                             THEN /\ resp' = HTTPException("upload", req, 500,
                                                           ErrorProcessingFile)
                                  /\ up' = up
                             ELSE /\ resp' = Pending("upload", req)
                                  /\ up' = [pc |-> "notify", token |-> token,
                                            file |-> file,
                                            student |-> Get(auth.student),
                                            assignment |-> assignment]
       /\ UNCHANGED <<students, reg, held, clock, analysis_results, academic_sources,
                      webhook_calls>>

\* an upload that lets a webhook timeout reach the outer except
webhook_error_propagates_timeout(outcome) == outcome = "timeout"

\* the inner try of upload_assignment: does the outcome of the POST reach
\* the outer except
webhook_error_propagates(outcome) == FALSE

upload_notify(outcome) ==
    LET req == UploadReq(up.token, up.file, "none", outcome)
        webhook_data == [student_id |-> up.student.id,
                         student_email |-> up.student.email,
                         assignment_id |-> up.assignment.id,
                         filename |-> up.file.filename,
                         assignmentText |-> up.assignment.original_text]
    IN /\ up.pc = "notify"
       /\ webhook_calls' = webhook_calls \cup {webhook_data}
       /\ resp' = IF webhook_error_propagates(outcome)
                  THEN HTTPException("upload", req, 500, ErrorProcessingFile)
                  ELSE Response("upload", req, 200, "Assignment uploaded successfully",
                                Some([assignment_id |-> up.assignment.id,
                                      filename |-> up.file.filename,
                                      word_count |-> up.assignment.word_count]))
       /\ up' = IdleUpload
       /\ UNCHANGED <<students, reg, held, clock, assignments, analysis_results,
                      academic_sources>>

(***************************************************************************)
(* The external workflow writes table analysis_results.  The foreign key   *)
(* of models.py makes assignment_id the id of a stored Assignment or NULL; *)
(* analyzed_at is nullable.                                                *)
(***************************************************************************)
Timestamps == {None} \cup {Some(t) : t \in 1..MaxTs}

workflow_writes_analysis(assignment_id, analyzed_at) ==
    /\ Cardinality(analysis_results) < MaxAnalyses
    /\ assignment_id # None => \E a \in assignments : a.id = Get(assignment_id)
    /\ analysis_results' = analysis_results \cup
            {[id |-> NextId(analysis_results), assignment_id |-> assignment_id,
              analyzed_at |-> analyzed_at]}
    /\ resp' = Pending("workflow", [fault |-> "none"])
    /\ UNCHANGED <<students, reg, held, clock, assignments, academic_sources, up,
                   webhook_calls>>

(***************************************************************************)
(* main.py: the analysis readers                                           *)
(***************************************************************************)
\* AnalysisResponse(...): analyzed_at is a required str, so a row without a
\* timestamp fails the validation of the response model (500)
AnalysisResponse(op, req, analysis) ==
    IF analysis.analyzed_at = None
    THEN HTTPException(op, req, 500, "Internal Server Error")
    ELSE Response(op, req, 200, "",
                  Some([id |-> analysis.id, assignment_id |-> analysis.assignment_id,
                        analyzed_at |-> analysis.analyzed_at]))

\* readers that never find the requester to be another account
not_owner_never(assignment, current_student) == FALSE

\* assignment.student_id != current_student.id
not_owner(assignment, current_student) == assignment.student_id # current_student.id

get_analysis(token, analysis_id) ==
    LET req == [token |-> token, analysis_id |-> analysis_id, fault |-> "none"]
        auth == get_current_student(token, students, clock)
        found == {r \in analysis_results : r.id = analysis_id}
    IN /\ resp' =
            IF auth.student = None
            THEN HTTPException("get_analysis", req, auth.error.status_code,
                               auth.error.detail)
            ELSE IF found = {}
            THEN HTTPException("get_analysis", req, 404, "Analysis not found")
            ELSE LET analysis == CHOOSE r \in found : TRUE
                     owning == {a \in assignments :
                                   Some(a.id) = analysis.assignment_id}
                 IN IF owning = {}
                       \/ not_owner(CHOOSE a \in owning : TRUE, Get(auth.student))
                    THEN HTTPException("get_analysis", req, 403, "Access denied")
                    ELSE AnalysisResponse("get_analysis", req, analysis)
       /\ UNCHANGED <<students, reg, held, clock, assignments, analysis_results,
                      academic_sources, up, webhook_calls>>

\* .order_by(AnalysisResult.analyzed_at.desc()).first(): the rows that can
\* come first.  PostgreSQL sorts NULLs first in descending order; rows with
\* equal timestamps come in any order.
first_by_analyzed_at_desc(rows) ==
    IF \E r \in rows : r.analyzed_at = None
    THEN {r \in rows : r.analyzed_at = None}
    ELSE {r \in rows : \A q \in rows : Get(q.analyzed_at) <= Get(r.analyzed_at)}

get_analysis_by_assignment(token, assignment_id) ==
    LET op == "get_analysis_by_assignment"
        req == [token |-> token, assignment_id |-> assignment_id, fault |-> "none"]
        auth == get_current_student(token, students, clock)
        found == {a \in assignments : a.id = assignment_id}
        rows == {r \in analysis_results : r.assignment_id = Some(assignment_id)}
    IN /\ IF auth.student = None
          THEN resp' = HTTPException(op, req, auth.error.status_code,
                                     auth.error.detail)
          ELSE IF found = {}
          THEN resp' = HTTPException(op, req, 404, "Assignment not found")
          ELSE IF not_owner(CHOOSE a \in found : TRUE, Get(auth.student))
          THEN resp' = HTTPException(op, req, 403, "Access denied")
          ELSE IF rows = {}
          THEN resp' = HTTPException(op, req, 404, "Analysis not found. The assignment may still be processing.")
          ELSE \E analysis \in first_by_analyzed_at_desc(rows) :
                  resp' = AnalysisResponse(op, req, analysis)
       /\ UNCHANGED <<students, reg, held, clock, assignments, analysis_results,
                      academic_sources, up, webhook_calls>>

(***************************************************************************)
(* rag_service.py: embeddings and similarity search.  An embedding is a    *)
(* direction, one of the multiples of 60 degrees; Cosine lists the cosine  *)
(* of the angle between two directions, in thousandths.                    *)
(***************************************************************************)
Cosine == <<1000, 500, -500, -1000, -500, 500>>
Directions == 0..(Len(Cosine) - 1)

\* the operator <=> of pgvector
cosine_distance(a, b) == 1000 - Cosine[((a - b + Len(Cosine)) % Len(Cosine)) + 1]

\* what the embedding API answers: a vector, or an error whose message does
\* or does not name the API key
EmbeddingAnswers ==
    {[error |-> "", embedding |-> Some(d)] : d \in Directions}
        \cup {[error |-> e, embedding |-> None] : e \in {"API key", "other"}}

ErrorApiKey == "OpenAI API key not configured"
ErrorEmbedding == "Error generating embedding"
ErrorNoSources == "No academic sources found in database"
ErrorQuery == "LIMIT must not be negative"

generate_embedding(answer) ==
    IF answer.error = "" THEN [error |-> "", embedding |-> answer.embedding]
    ELSE IF answer.error = "API key" THEN [error |-> ErrorApiKey, embedding |-> None]
    ELSE [error |-> ErrorEmbedding, embedding |-> None]

add_academic_source(answer) ==
    LET generated == generate_embedding(answer)
    IN /\ Cardinality(academic_sources) < MaxSources
       /\ IF generated.error # ""
          THEN /\ academic_sources' = academic_sources
               /\ resp' = HTTPException("add_academic_source", [fault |-> "none"],
                                        500, "Error adding source")
          ELSE /\ academic_sources' = academic_sources \cup
                      {[id |-> NextId(academic_sources),
                        embedding |-> generated.embedding]}
               /\ resp' = Response("add_academic_source", [fault |-> "none"], 200, "",
                                   None)
       /\ UNCHANGED <<students, reg, held, clock, assignments, analysis_results, up,
                      webhook_calls>>

\* the orders in which the table can hand the rows to the sort
Arrangements(rows) ==
    {f \in [1..Cardinality(rows) -> rows] :
        \A i, j \in 1..Cardinality(rows) : i # j => f[i] # f[j]}

RECURSIVE insert_by_distance(_, _, _)
insert_by_distance(row, sorted, q) ==
    IF sorted = <<>> THEN <<row>>
    ELSE IF cosine_distance(Get(row.embedding), q)
              < cosine_distance(Get(Head(sorted).embedding), q)
    THEN <<row>> \o sorted
    ELSE <<Head(sorted)>> \o insert_by_distance(row, Tail(sorted), q)

\* a search that sorts by descending distance
RECURSIVE order_by_distance_desc(_, _)
order_by_distance_desc(rows, q) ==
    IF rows = <<>> THEN <<>>
    ELSE LET rest == order_by_distance_desc(Tail(rows), q)
             nearer == SelectSeq(rest, LAMBDA r :
                          cosine_distance(Get(r.embedding), q)
                              <= cosine_distance(Get(Head(rows).embedding), q))
             farther == SelectSeq(rest, LAMBDA r :
                          cosine_distance(Get(r.embedding), q)
                              > cosine_distance(Get(Head(rows).embedding), q))
         IN farther \o <<Head(rows)>> \o nearer

\* ORDER BY embedding <=> query
RECURSIVE order_by_distance(_, _)
order_by_distance(rows, q) ==
    IF rows = <<>> THEN <<>>
    ELSE insert_by_distance(Head(rows), order_by_distance(Tail(rows), q), q)

\* LIMIT top_k
limit(rows, top_k) == SubSeq(rows, 1, IF top_k < Len(rows) THEN top_k ELSE Len(rows))

\* a search that does not look whether there are sources
corpus_is_empty_unchecked(sources) == FALSE

\* source_count == 0
corpus_is_empty(sources) == Cardinality(sources) = 0

\* search_similar_sources: the list of sources, or the message of the
\* exception raised ('Error searching sources: ' before it).  arrangement is
\* the order of the rows with an embedding before the sort.
search_similar_sources(sources, answer, top_k, arrangement) ==
    IF corpus_is_empty(sources) THEN [error |-> ErrorNoSources, sources |-> <<>>]
    ELSE LET generated == generate_embedding(answer)
         IN IF generated.error # "" THEN [error |-> generated.error, sources |-> <<>>]
            ELSE IF top_k < 0 THEN [error |-> ErrorQuery, sources |-> <<>>]
            ELSE LET q == Get(generated.embedding)
                     rows == limit(order_by_distance(arrangement, q), top_k)
                 IN [error |-> "",
                     sources |-> [i \in 1..Len(rows) |->
                                    [id |-> rows[i].id,
                                     similarity |->
                                        1000 - cosine_distance(Get(rows[i].embedding),
                                                               q)]]]

\* the arrangements a search can meet: the sort runs only when the query
\* was embedded and the LIMIT is positive
SortInputs(rows, answer, top_k) ==
    IF answer.error = "" /\ top_k > 0 THEN Arrangements(rows) ELSE {<<>>}

\* main.py: GET /sources.  The detail of a 500 is the message of the
\* exception behind the prefixes 'Error searching sources: '.
search_sources(token, answer, top_k) ==
    LET req == [token |-> token, answer |-> answer, top_k |-> top_k,
                fault |-> "none"]
        auth == get_current_student(token, students, clock)
        searchable == {r \in academic_sources : r.embedding # None}
    IN /\ IF auth.student = None
          THEN resp' = HTTPException("search_sources", req, auth.error.status_code,
                                     auth.error.detail)
          ELSE \E arrangement \in SortInputs(searchable, answer, top_k) :
                  LET found == search_similar_sources(academic_sources, answer,
                                                      top_k, arrangement)
                  IN resp' = IF found.error # ""
                             THEN HTTPException("search_sources", req, 500,
                                                found.error)
                             ELSE Response("search_sources", req, 200, "",
                                           Some(found.sources))
       /\ UNCHANGED <<students, reg, held, clock, assignments, analysis_results,
                      academic_sources, up, webhook_calls>>

(***************************************************************************)
(* Initial state: empty tables, no request in flight                       *)
(***************************************************************************)
Init ==
    /\ students = {}
    /\ reg = [s \in Slots |-> IdleSlot]
    /\ held = {}
    /\ clock = 0
    /\ resp = Pending("start", [fault |-> "none"])
    /\ assignments = {}
    /\ analysis_results = {}
    /\ academic_sources = {}
    /\ up = IdleUpload
    /\ webhook_calls = {}

(***************************************************************************)
(* Spec: registration and login, with register requests racing             *)
(***************************************************************************)
RegisterPasswords == {PwA}
LoginPasswords == {PwA, Pw72}
OneSalt == {MaxSalt}

Next ==
    \/ \E s \in Slots, email \in Emails, password \in RegisterPasswords,
          student_id \in StudentIds :
          register_check_email(s, email, password, student_id)
    \/ \E s \in Slots : register_check_student_id(s)
    \/ \E s \in Slots, fault \in Faults, salt \in OneSalt, withStatement \in BOOLEAN :
          register_commit(s, fault, salt, withStatement)
    \/ \E email \in Emails, password \in LoginPasswords : login(email, password)
    \/ \E email \in Emails, password \in LoginPasswords :
          login_for_access_token(email, password)

Spec == Init /\ [][Next]_vars

(***************************************************************************)
(* SpecPassword: one account and its password: register, login, reset and  *)
(* change, over passwords shorter than, at and beyond the bcrypt limit     *)
(***************************************************************************)
OneSlot == {MaxSlots}
OneEmail == {"a@x.org"}

NextPassword ==
    \/ \E s \in OneSlot, email \in OneEmail, password \in Passwords :
          register_check_email(s, email, password, NULL)
    \/ \E s \in OneSlot : register_check_student_id(s)
    \/ \E s \in OneSlot, salt \in Salts : register_commit(s, "none", salt, TRUE)
    \/ \E email \in Emails, password \in Passwords : login(email, password)
    \/ \E email \in Emails, password \in Passwords :
          login_for_access_token(email, password)
    \/ \E email \in Emails, new_password \in Passwords :
          reset_password(email, new_password)
    \/ \E token \in Presentable({}), old_password \in Passwords,
          new_password \in Passwords :
          change_password(token, old_password, new_password)

SpecPassword == Init /\ [][NextPassword]_vars

(***************************************************************************)
(* SpecToken: tokens over time: issue, validate, the clock                 *)
(***************************************************************************)
TokenData == {[sub |-> e] : e \in Emails} \cup {[sub |-> NoSub]}
Deltas == {None, Some(0), Some(TickHours), Some(0 - TickHours)}

NextToken ==
    \/ \E s \in OneSlot, email \in OneEmail :
          register_check_email(s, email, PwA, NULL)
    \/ \E s \in OneSlot : register_check_student_id(s)
    \/ \E s \in OneSlot, salt \in OneSalt : register_commit(s, "none", salt, TRUE)
    \/ \E data \in TokenData, expires_delta \in Deltas : issue_token(data, expires_delta)
    \/ \E token \in Presentable(Emails) : validate_token(token)
    \/ tick

SpecToken == Init /\ [][NextToken]_vars

(***************************************************************************)
(* SpecUpload: two accounts, uploads, the workflow's analysis rows and     *)
(* the analysis readers                                                    *)
(***************************************************************************)
UploadFiles == {FileHello, FileBadPdf}
AssignmentIds == 1..(MaxFiles + 1)
AnalysisIds == 1..(MaxAnalyses + 1)

NextUpload ==
    \/ \E s \in OneSlot, email \in Emails : register_check_email(s, email, PwA, NULL)
    \/ \E s \in OneSlot : register_check_student_id(s)
    \/ \E s \in OneSlot, salt \in OneSalt : register_commit(s, "none", salt, TRUE)
    \/ \E email \in Emails : login(email, PwA)
    \/ \E token \in Presentable({}), file \in UploadFiles : upload_commit(token, file)
    \/ \E outcome \in WebhookOutcomes : upload_notify(outcome)
    \/ \E assignment_id \in {None} \cup {Some(i) : i \in AssignmentIds},
          analyzed_at \in Timestamps :
          workflow_writes_analysis(assignment_id, analyzed_at)
    \/ \E token \in Presentable({}), analysis_id \in AnalysisIds :
          get_analysis(token, analysis_id)
    \/ \E token \in Presentable({}), assignment_id \in AssignmentIds :
          get_analysis_by_assignment(token, assignment_id)

SpecUpload == Init /\ [][NextUpload]_vars

(***************************************************************************)
(* SpecSearch: the corpus is loaded and searched                           *)
(***************************************************************************)
TopKs == (0 - 1)..MaxTopK

NextSearch ==
    \/ \E s \in OneSlot, email \in OneEmail : register_check_email(s, email, PwA, NULL)
    \/ \E s \in OneSlot : register_check_student_id(s)
    \/ \E s \in OneSlot, salt \in OneSalt : register_commit(s, "none", salt, TRUE)
    \/ \E answer \in EmbeddingAnswers : add_academic_source(answer)
    \/ \E token \in Presentable({}), answer \in EmbeddingAnswers, top_k \in TopKs :
          search_sources(token, answer, top_k)

SpecSearch == Init /\ [][NextSearch]_vars

(***************************************************************************)
(* SpecWords: one account uploads files of every kind                      *)
(***************************************************************************)
WordFiles == {FileHello, FileBadPdf, FileEmpty, FileBlank, FileBadBytes,
              FilePdfPages, FileDocx}

NextWords ==
    \/ \E s \in OneSlot, email \in OneEmail : register_check_email(s, email, PwA, NULL)
    \/ \E s \in OneSlot : register_check_student_id(s)
    \/ \E s \in OneSlot, salt \in OneSalt : register_commit(s, "none", salt, TRUE)
    \/ \E email \in OneEmail : login(email, PwA)
    \/ \E token \in Presentable({}), file \in WordFiles : upload_commit(token, file)
    \/ \E outcome \in WebhookOutcomes : upload_notify(outcome)

SpecWords == Init /\ [][NextWords]_vars

(***************************************************************************)
(* SpecRevoke: an account registers with PwA and keeps the token, the      *)
(* password is reset and changed, the token is presented as time passes    *)
(***************************************************************************)
NewPasswords == {PwShort, PwA, Pw72, PwMulti}

NextRevoke ==
    \/ \E s \in OneSlot, email \in OneEmail : register_check_email(s, email, PwA, NULL)
    \/ \E s \in OneSlot : register_check_student_id(s)
    \/ \E s \in OneSlot, salt \in OneSalt : register_commit(s, "none", salt, TRUE)
    \/ \E email \in Emails, new_password \in NewPasswords :
          reset_password(email, new_password)
    \/ \E token \in Presentable({}), old_password \in NewPasswords,
          new_password \in NewPasswords :
          change_password(token, old_password, new_password)
    \/ \E token \in Presentable(Emails) : validate_token(token)
    \/ tick

SpecRevoke == Init /\ [][NextRevoke]_vars

(***************************************************************************)
(* SpecHash: the two hashing functions on their own                        *)
(***************************************************************************)
NextHash ==
    \/ \E password \in HashPasswords, salt \in Salts : hash_password(password, salt)
    \/ \E plain_password \in HashPasswords : check_password(plain_password)

SpecHash == Init /\ [][NextHash]_vars

(***************************************************************************)
(* Properties                                                              *)
(***************************************************************************)
\* C1: register called twice in sequence with the same email: the first call
\* (nothing stored collides, nothing fails) creates the account and returns
\* its access token; the second call, received when the email is stored,
\* answers 400 'Email already registered' and creates no account.
C1_RegisterTwice ==
    [][resp'.op = "register" /\ resp'.status # 0 =>
        LET req == resp'.req
            free == /\ ~\E st \in students : st.email = req.email
                    /\ \/ req.student_id = NULL
                       \/ ~\E st \in students : st.student_id = req.student_id
        IN /\ free /\ req.fault = "none" =>
                /\ resp'.status = 200
                /\ resp'.body # None /\ Get(resp'.body).sub = req.email
                /\ Cardinality(students') = Cardinality(students) + 1
                /\ \E st \in students' \ students : st.email = req.email
           /\ req.existed =>
                /\ resp'.status = 400
                /\ resp'.detail = EmailRegistered
                /\ students' = students
    ]_vars

C1_Witness ==
    /\ resp.op = "register"
    /\ resp.req.existed
    /\ resp.status = 400
    /\ resp.detail = EmailRegistered
    /\ Cardinality({st \in students : st.email = resp.req.email}) = 1
    /\ \E h \in held : h.token.sub = resp.req.email

\* C2: in every reachable state no two stored accounts have the same email
\* and no two have the same non-null student_id, however register requests
\* interleave.
C2_UniqueAccounts ==
    \A a, b \in students :
        a # b => /\ a.email # b.email
                 /\ a.student_id # NULL => a.student_id # b.student_id

\* two requests passed the lookups together and the commit of the later one
\* was refused
C2_Witness ==
    /\ resp.op = "register"
    /\ ~resp.req.existed
    /\ resp.req.fault = "none"
    /\ resp.status = 400
    /\ resp.detail = EmailRegistered
    /\ Cardinality(students) = 2

\* C8: change-password by an authenticated account with a correct
\* old_password and a new_password equal to the account's current password
\* answers 400, never success, and leaves the stored password hash unchanged.
C8_ChangeToSamePassword ==
    [][resp'.op = "change_password" =>
        LET req == resp'.req
            auth == get_current_student(req.token, students, clock)
        IN auth.student # None
           /\ verify_password(req.old_password, Get(auth.student).password_hash)
           /\ req.new_password = Get(auth.student).plain
           => /\ resp'.status = 400
              /\ students' = students
    ]_vars

C8_Witness ==
    /\ resp.op = "change_password"
    /\ resp.status = 400
    /\ resp.detail = DifferentPassword
    /\ \E st \in students :
          /\ st.email = resp.req.token.sub
          /\ st.plain = resp.req.new_password
          /\ st.plain = resp.req.old_password
          /\ Len(encode_utf8(st.plain)) > BCRYPT_MAX_BYTES

\* C3: a token issued at time t for an existing account with expiry window w
\* (the expires_delta given, a zero duration included, otherwise 24 hours)
\* validates to the subject's account at any time before t+w and is
\* Unauthenticated (401) at any time after t+w.
C3_ExpiryWindow ==
    resp.op = "get_current_student" =>
        \A h \in held :
            h.token = resp.req.token /\ (\E st \in students : st.email = h.token.sub) =>
                LET w == IF h.expires_delta = None THEN JWT_EXPIRATION_HOURS
                         ELSE Get(h.expires_delta)
                IN /\ clock < h.at + w =>
                        /\ resp.status = 200
                        /\ resp.body # None /\ Get(resp.body).email = h.token.sub
                   /\ clock > h.at + w => resp.status = 401

\* C3 with the zero duration left out: the window the code gives a token is
\* the expires_delta given when it is not zero, otherwise 24 hours.
C3_NonZeroWindow ==
    resp.op = "get_current_student" =>
        \A h \in held :
            /\ h.token = resp.req.token
            /\ h.expires_delta # Some(0)
            /\ \E st \in students : st.email = h.token.sub
            => LET w == IF h.expires_delta = None THEN JWT_EXPIRATION_HOURS
                        ELSE Get(h.expires_delta)
               IN /\ clock < h.at + w => resp.status = 200
                  /\ clock > h.at + w => resp.status = 401

\* a token issued with expires_delta = 0 validates after its issue time
C3_Witness ==
    /\ resp.op = "get_current_student"
    /\ resp.status = 200
    /\ \E h \in held : /\ h.token = resp.req.token
                       /\ h.expires_delta = Some(0)
                       /\ clock > h.at

\* C4: every failure of token validation is the same 401 'Could not validate
\* credentials': no JWT, bad signature, expired, no subject, unknown subject.
C4_OneUnauthenticated ==
    resp.op = "get_current_student" /\ resp.body = None =>
        /\ resp.status = 401
        /\ resp.detail = "Could not validate credentials"

\* a correctly signed token has expired
C4_Witness ==
    /\ resp.op = "get_current_student"
    /\ resp.body = None
    /\ resp.req.token.signed
    /\ resp.req.token.exp # None /\ Get(resp.req.token.exp) < clock
    /\ \E st \in students : st.email = resp.req.token.sub

\* the account a request's token stands for
Requester == get_current_student(resp.req.token, students, clock).student

\* C5: an authenticated upload whose extraction and commit succeeded answers
\* 200 with the assignment_id of the persisted Assignment whatever the
\* outcome of the webhook call (success, timeout, connection error, non-2xx).
C5_UploadSurvivesWebhook ==
    resp.op = "upload" /\ resp.req.outcome \in WebhookOutcomes =>
        /\ resp.status = 200
        /\ resp.body # None
        /\ \E a \in assignments :
              /\ a.id = Get(resp.body).assignment_id
              /\ a.filename = resp.req.filename
              /\ Requester # None /\ a.student_id = Get(Requester).id

C5_Witness ==
    /\ resp.op = "upload"
    /\ resp.req.outcome = "timeout"
    /\ resp.status = 200
    /\ \E a \in assignments : a.id = Get(resp.body).assignment_id

\* C6: the readers keep NotFound and AccessDenied apart: a missing
\* AnalysisResult or a missing owning Assignment is 404, an Assignment of
\* another account is 403, for GET /analysis/{id} and for
\* GET /assignments/{id}/analysis.
C6_NotFoundVersusDenied ==
    /\ resp.op = "get_analysis" /\ Requester # None =>
          LET found == {r \in analysis_results : r.id = resp.req.analysis_id}
              owning == {a \in assignments :
                            \E r \in found : r.assignment_id = Some(a.id)}
          IN /\ found = {} \/ owning = {} => resp.status = 404
             /\ (\E a \in owning : a.student_id # Get(Requester).id)
                   => resp.status = 403
    /\ resp.op = "get_analysis_by_assignment" /\ Requester # None =>
          LET found == {a \in assignments : a.id = resp.req.assignment_id}
          IN /\ found = {} => resp.status = 404
             /\ (\E a \in found : a.student_id # Get(Requester).id)
                   => resp.status = 403

\* GET /analysis/{id} of a row whose assignment_id is NULL answers 403
C6_Witness ==
    /\ resp.op = "get_analysis"
    /\ Requester # None
    /\ resp.status = 403
    /\ \E r \in analysis_results :
          /\ r.id = resp.req.analysis_id
          /\ ~\E a \in assignments : r.assignment_id = Some(a.id)

\* C6 without the missing owning Assignment of GET /analysis/{id}
C6_ExceptOrphan ==
    /\ resp.op = "get_analysis" /\ Requester # None =>
          LET found == {r \in analysis_results : r.id = resp.req.analysis_id}
              owning == {a \in assignments :
                            \E r \in found : r.assignment_id = Some(a.id)}
          IN /\ found = {} => resp.status = 404
             /\ (\E a \in owning : a.student_id # Get(Requester).id)
                   => resp.status = 403
             /\ resp.status = 404 => found = {}
             /\ resp.status = 403 =>
                   \/ found # {} /\ owning = {}
                   \/ \E a \in owning : a.student_id # Get(Requester).id
    /\ resp.op = "get_analysis_by_assignment" /\ Requester # None =>
          LET found == {a \in assignments : a.id = resp.req.assignment_id}
          IN /\ found = {} => resp.status = 404
             /\ (\E a \in found : a.student_id # Get(Requester).id)
                   <=> resp.status = 403

\* the rows of the assignment a by-assignment request names, when the
\* requester owns it
OwnRows ==
    IF /\ resp.op = "get_analysis_by_assignment"
       /\ Requester # None
       /\ \E a \in assignments : /\ a.id = resp.req.assignment_id
                                 /\ a.student_id = Get(Requester).id
    THEN {r \in analysis_results : r.assignment_id = Some(resp.req.assignment_id)}
    ELSE {}

\* C7: for an assignment of the requester with one or more AnalysisResults
\* the by-assignment reader returns a result of that assignment whose
\* analyzed_at is not before that of any other result of the assignment.
C7_LatestReturned ==
    OwnRows # {} =>
        /\ resp.status = 200
        /\ resp.body # None
        /\ \E r \in OwnRows :
              /\ r.id = Get(resp.body).id
              /\ r.analyzed_at = Get(resp.body).analyzed_at
              /\ r.analyzed_at # None
              /\ \A q \in OwnRows :
                    q.analyzed_at # None => Get(q.analyzed_at) <= Get(r.analyzed_at)

\* a row without analyzed_at is taken for the latest, before a row with one
C7_Witness ==
    /\ resp.op = "get_analysis_by_assignment"
    /\ resp.status = 500
    /\ \E r, q \in OwnRows : r.analyzed_at = None /\ q.analyzed_at # None

\* C7 where every result of the assignment has a timestamp
C7_LatestAmongTimestamped ==
    OwnRows # {} /\ (\A q \in OwnRows : q.analyzed_at # None) =>
        /\ resp.status = 200
        /\ \E r \in OwnRows :
              /\ r.id = Get(resp.body).id
              /\ \A q \in OwnRows : Get(q.analyzed_at) <= Get(r.analyzed_at)

C7_TwoTimestamps ==
    /\ resp.status = 200
    /\ \E r, q \in OwnRows :
          /\ r.analyzed_at # None /\ q.analyzed_at # None
          /\ Get(q.analyzed_at) < Get(r.analyzed_at)
          /\ Get(resp.body).id = r.id

\* C9: on a non-empty corpus search returns at most top_k entries, in order
\* of non-increasing similarity, and no stored source with an embedding that
\* was left out is more similar to the query than an entry returned.
C9_TopKRanked ==
    resp.op = "search_sources" /\ resp.status = 200 /\ academic_sources # {} =>
        LET found == Get(resp.body)
            q == Get(resp.req.answer.embedding)
            similarity(r) == Cosine[((Get(r.embedding) - q + Len(Cosine))
                                        % Len(Cosine)) + 1]
            returned == {found[i].id : i \in 1..Len(found)}
        IN /\ Len(found) <= resp.req.top_k
           /\ \A i, j \in 1..Len(found) :
                 i < j => found[i].similarity >= found[j].similarity
           /\ \A i, j \in 1..Len(found) : i # j => found[i].id # found[j].id
           /\ \A i \in 1..Len(found) :
                 \E r \in academic_sources :
                    r.id = found[i].id /\ found[i].similarity = similarity(r)
           /\ \A r \in academic_sources :
                 r.embedding # None /\ r.id \notin returned =>
                    \A i \in 1..Len(found) : found[i].similarity >= similarity(r)

\* two sources at two distances, the nearer one asked for
C9_Witness ==
    /\ resp.op = "search_sources"
    /\ resp.status = 200
    /\ resp.req.top_k = 1
    /\ Cardinality(academic_sources) = 2
    /\ Len(Get(resp.body)) = 1
    /\ \E r \in academic_sources :
          Get(resp.body)[1].similarity >
              Cosine[((Get(r.embedding) - Get(resp.req.answer.embedding) + Len(Cosine))
                         % Len(Cosine)) + 1]

\* C10: search on an empty corpus signals its own condition: never an empty
\* list, and an answer that differs from a search with no results and from
\* the other failures of search (embedding, query).
C10_EmptyCorpusDistinct ==
    resp.op = "search_sources" /\ Requester # None =>
        /\ academic_sources = {} =>
              /\ resp.status = 500
              /\ resp.detail = "No academic sources found in database"
        /\ academic_sources # {} =>
              ~(resp.status = 500
                /\ resp.detail = "No academic sources found in database")
        /\ resp.status = 200 => academic_sources # {}

C10_Witness ==
    /\ resp.op = "search_sources"
    /\ Requester # None
    /\ academic_sources = {}
    /\ resp.req.answer.error = ""
    /\ resp.req.top_k > 0
    /\ resp.status = 500

\* C11: verify_password(P, get_password_hash(P)) is true for every password
\* P, and when P is longer than 72 encoded bytes so is
\* verify_password(Q, get_password_hash(P)) for every Q whose UTF-8 encoding
\* has the same first 72 bytes.
C11_HashVerifyRoundTrip ==
    resp.op = "verify_password" =>
        LET P == encode_utf8(resp.req.password)
            Q == encode_utf8(resp.req.plain_password)
        IN /\ resp.req.plain_password = resp.req.password => Get(resp.body)
           /\ /\ Len(P) > BCRYPT_MAX_BYTES
              /\ Len(Q) >= BCRYPT_MAX_BYTES
              /\ \A i \in 1..BCRYPT_MAX_BYTES : Q[i] = P[i]
              => Get(resp.body)

\* a password of 73 bytes ending in a two-byte character was hashed and
\* another password with the same first 72 bytes verifies
C11_Witness ==
    /\ resp.op = "verify_password"
    /\ resp.req.password = PwMulti
    /\ resp.req.plain_password = PwMultiOther
    /\ Get(resp.body)

\* C12: for every successful upload the word_count of the response is the
\* word_count stored on the Assignment and is the number of
\* whitespace-delimited tokens of the text extracted: 0 for an empty or
\* whitespace-only text, 3 for 'Hello world foo'.
C12_WordCount ==
    resp.op = "upload" /\ resp.status = 200 =>
        \E a \in assignments :
            LET text == a.original_text
                starts == {i \in 1..Len(text) :
                             /\ text[i] \notin {" ", "\n", "\t"}
                             /\ (i = 1 \/ text[i - 1] \in {" ", "\n", "\t"})}
            IN /\ a.id = Get(resp.body).assignment_id
               /\ Get(resp.body).word_count = a.word_count
               /\ a.word_count = Cardinality(starts)
               /\ (\A i \in 1..Len(text) : text[i] \in {" ", "\n", "\t"})
                     => a.word_count = 0
               /\ text = <<"H", "e", "l", "l", "o", " ", "w", "o", "r", "l", "d", " ",
                           "f", "o", "o">> => a.word_count = 3

\* 'Hello world foo' was uploaded and counted
C12_Witness ==
    /\ resp.op = "upload"
    /\ resp.status = 200
    /\ Get(resp.body).word_count = 3
    /\ \E a \in assignments : a.original_text = TextHello

\* a whitespace-only file was uploaded and counted
C12_BlankCounted ==
    /\ resp.op = "upload"
    /\ resp.status = 200
    /\ Get(resp.body).word_count = 0
    /\ \E a \in assignments : Len(a.original_text) = 3

\* C13: whenever GET /analysis/{analysis_id} or
\* GET /assignments/{assignment_id}/analysis returns an AnalysisResult, the
\* Assignment the result belongs to is owned by the requester's account.
C13_OwnershipIsolation ==
    resp.op \in {"get_analysis", "get_analysis_by_assignment"} /\ resp.status = 200 =>
        /\ Requester # None
        /\ resp.body # None
        /\ \E r \in analysis_results :
              /\ r.id = Get(resp.body).id
              /\ r.assignment_id = Get(resp.body).assignment_id
              /\ resp.op = "get_analysis" => r.id = resp.req.analysis_id
              /\ resp.op = "get_analysis_by_assignment" =>
                    r.assignment_id = Some(resp.req.assignment_id)
              /\ \E a \in assignments :
                    /\ Some(a.id) = r.assignment_id
                    /\ a.student_id = Get(Requester).id

\* a result was returned to its owner while another account exists
C13_Witness ==
    /\ resp.op \in {"get_analysis", "get_analysis_by_assignment"}
    /\ resp.status = 200
    /\ Cardinality(students) = 2

\* another account asked for the result and was refused
C13_OtherRefused ==
    /\ resp.op \in {"get_analysis", "get_analysis_by_assignment"}
    /\ resp.status = 403
    /\ Requester # None
    /\ \E a \in assignments :
          /\ a.student_id # Get(Requester).id
          /\ \E r \in analysis_results :
                /\ r.assignment_id = Some(a.id)
                /\ r.analyzed_at # None
                /\ resp.op = "get_analysis" => r.id = resp.req.analysis_id
                /\ resp.op = "get_analysis_by_assignment" => a.id = resp.req.assignment_id

\* C14: in upload the webhook call is made only after the Assignment has been
\* committed and carries the id of that Assignment; when the extraction of
\* the text or the commit of the Assignment fails the caller gets a 500, no
\* webhook call is made and no Assignment is persisted.
C14_CommitBeforeWebhook ==
    [][/\ \A w \in webhook_calls' \ webhook_calls :
             /\ resp'.op = "upload"
             /\ \E a \in assignments :
                   /\ a.id = w.assignment_id
                   /\ a.filename = w.filename
                   /\ a.original_text = w.assignmentText
                   /\ a \in assignments'
       /\ /\ resp'.op = "upload"
          /\ get_current_student(resp'.req.token, students, clock).student # None
          /\ \/ resp'.req.fault = "commit"
             \/ \E f \in UploadFiles : /\ f.filename = resp'.req.filename
                                       /\ ~f.readable
          => /\ resp'.status = 500
             /\ webhook_calls' = webhook_calls
             /\ assignments' = assignments
    ]_vars

\* an upload was committed and notified, and a later one failed at its commit
C14_Witness ==
    /\ resp.op = "upload"
    /\ resp.req.fault = "commit"
    /\ resp.status = 500
    /\ Cardinality(assignments) = 1
    /\ \E w \in webhook_calls : \E a \in assignments : a.id = w.assignment_id

\* an upload of a file whose text cannot be extracted was refused
C14_ExtractionFailed ==
    /\ resp.op = "upload"
    /\ resp.req.filename = FileBadPdf.filename
    /\ Requester # None
    /\ resp.status = 500
    /\ assignments = {}
    /\ webhook_calls = {}

\* C15: when a register request that passed the existence checks violates a
\* uniqueness constraint at its commit, it is answered 400 with the message
\* of the field that collided: 'Email already registered' only for a
\* collision of the email, the student-ID message for one of the student_id.
C15_FieldSpecificConflict ==
    [][\A s \in Slots :
          LET req == resp'.req
              email_collided == \E st \in students : st.email = reg[s].email
              student_id_collided ==
                  /\ reg[s].student_id # NULL
                  /\ \E st \in students : st.student_id = reg[s].student_id
          IN /\ reg[s].pc = "commit" /\ reg'[s].pc = "idle"
             /\ resp'.op = "register" /\ req.fault = "none"
             /\ email_collided \/ student_id_collided
             => /\ resp'.status = 400
                /\ resp'.detail \in {EmailRegistered, StudentIdRegistered}
                /\ resp'.detail = EmailRegistered => email_collided
                /\ resp'.detail = StudentIdRegistered => student_id_collided
    ]_vars

\* a request whose student_id alone collided at the commit was told that its
\* email is registered
C15_Witness ==
    /\ resp.op = "register"
    /\ resp.req.fault = "none"
    /\ ~resp.req.existed
    /\ resp.status = 400
    /\ resp.detail = EmailRegistered
    /\ resp.req.student_id = "S1"
    /\ ~\E st \in students : st.email = resp.req.email
    /\ \E st \in students : st.student_id = resp.req.student_id

\* C15 without the choice of the message: a uniqueness violation at the
\* commit is a 400 with one of the two field messages, never a 500, and a
\* collision of the email is always told as such.
C15_ConflictNotGeneric ==
    [][\A s \in Slots :
          LET email_collided == \E st \in students : st.email = reg[s].email
              student_id_collided ==
                  /\ reg[s].student_id # NULL
                  /\ \E st \in students : st.student_id = reg[s].student_id
          IN /\ reg[s].pc = "commit" /\ reg'[s].pc = "idle"
             /\ resp'.op = "register" /\ resp'.req.fault = "none"
             /\ email_collided \/ student_id_collided
             => /\ resp'.status = 400
                /\ resp'.detail \in {EmailRegistered, StudentIdRegistered}
                /\ email_collided /\ ~student_id_collided
                      => resp'.detail = EmailRegistered
    ]_vars

\* C16: whenever register answers with an error (400 or 500) the stored
\* accounts are those of before: a failure at any step (hashing, insert,
\* commit, refresh, token creation) leaves no new account behind.
C16_RegisterErrorNoAccount ==
    [][resp'.op = "register" /\ resp'.status \in {400, 500} => students' = students
    ]_vars

\* register answered 500 after its commit and the account is stored
C16_Witness ==
    /\ resp.op = "register"
    /\ resp.status = 500
    /\ resp.req.fault = "token"
    /\ ~resp.req.existed
    /\ \E st \in students : st.email = resp.req.email

\* C16 for the failures up to the commit: hashing, insert and commit, a
\* uniqueness violation included
C16_ErrorBeforeCommitNoAccount ==
    [][/\ resp'.op = "register"
       /\ resp'.status \in {400, 500}
       /\ resp'.req.fault \notin {"refresh", "token"}
       => students' = students
    ]_vars

\* C17: whenever reset-password or change-password answers with an error
\* (404, 401, 400 or the 500 of a storage failure) the stored password hash
\* of every account is unchanged; a new password shorter than 6 characters
\* is never stored.
C17_PasswordErrorNoChange ==
    [][resp'.op \in {"reset_password", "change_password"} =>
          /\ resp'.status # 200 =>
                \A st \in students :
                   \E now \in students' :
                      now.id = st.id /\ now.password_hash = st.password_hash
          /\ Len(resp'.req.new_password) < MIN_PASSWORD_LENGTH =>
                /\ resp'.status # 200
                /\ students' = students
    ]_vars

\* change-password answered 500 and the new password is the stored one
C17_Witness ==
    /\ resp.op = "change_password"
    /\ resp.status = 500
    /\ resp.req.fault = "refresh"
    /\ \E st \in students :
          /\ st.email = resp.req.token.sub
          /\ verify_password(resp.req.new_password, st.password_hash)
          /\ ~verify_password(resp.req.old_password, st.password_hash)

\* C17 for every error but a failure after the commit
C17_ErrorBeforeCommitNoChange ==
    [][/\ resp'.op \in {"reset_password", "change_password"}
       /\ resp'.status # 200
       /\ resp'.req.fault # "refresh"
       => students' = students
    ]_vars

\* a new password shorter than 6 characters was refused
C17_ShortRefused ==
    /\ resp.op \in {"reset_password", "change_password"}
    /\ resp.status = 400
    /\ resp.detail = PasswordTooShort
    /\ students # {}

\* C18: login, in its JSON and its form variant, with password p succeeds
\* exactly when the first 72 bytes of p are those of the password set by the
\* most recent successful register, reset-password or change-password on the
\* account.  The plain of an account is the password last written for it;
\* the formula says that login compares with it and that it is written by
\* the successful requests and by no other.
C18_LoginMatchesLastSuccess ==
    [][LET first72(password) ==
               LET b == encode_utf8(password)
               IN [i \in 1..(IF Len(b) < BCRYPT_MAX_BYTES THEN Len(b)
                              ELSE BCRYPT_MAX_BYTES) |-> b[i]]
       IN /\ resp'.op \in {"login", "login_for_access_token"} =>
                /\ resp'.status = 200 <=>
                      \E st \in students :
                         /\ st.email = resp'.req.email
                         /\ first72(resp'.req.password) = first72(st.plain)
                /\ students' = students
          /\ resp'.op \in {"register", "reset_password", "change_password"} =>
                IF resp'.status = 200
                THEN \E st \in students' :
                        /\ st.email = IF resp'.op = "change_password"
                                      THEN resp'.req.token.sub
                                      ELSE resp'.req.email
                        /\ st.plain = IF resp'.op = "register"
                                      THEN resp'.req.password
                                      ELSE resp'.req.new_password
                        /\ \A other \in students' : other # st => other \in students
                ELSE students' = students
    ]_vars

\* reset-password answered 500 and login with the new password succeeds
C18_Witness ==
    /\ resp.op = "reset_password"
    /\ resp.status = 500
    /\ authenticate_student(resp.req.email, resp.req.new_password, students) # None
    /\ \E st \in students :
          /\ st.email = resp.req.email
          /\ st.plain = resp.req.new_password
          /\ Len(encode_utf8(st.plain)) > BCRYPT_MAX_BYTES

\* C18 with the last request that committed in place of the last successful
\* one: login succeeds exactly when the first 72 bytes of p are those of the
\* password last written for the account.
C18_LoginMatchesStored ==
    [][resp'.op \in {"login", "login_for_access_token"} =>
          LET first72(password) ==
                  LET b == encode_utf8(password)
                  IN [i \in 1..(IF Len(b) < BCRYPT_MAX_BYTES THEN Len(b)
                                 ELSE BCRYPT_MAX_BYTES) |-> b[i]]
          IN /\ resp'.status = 200 <=>
                   \E st \in students :
                      /\ st.email = resp'.req.email
                      /\ first72(resp'.req.password) = first72(st.plain)
             /\ resp'.status \in {200, 401}
             /\ students' = students
    ]_vars

\* after a change to a password with other first 72 bytes the previous
\* password is refused
C18_PreviousRefused ==
    /\ resp.op \in {"login", "login_for_access_token"}
    /\ resp.status = 401
    /\ resp.req.password = PwA
    /\ \E st \in students : st.email = resp.req.email /\ st.plain = PwMulti

\* C19: no operation revokes an issued token: a token issued for an account
\* validates to that account at every time before its expiry, also after a
\* successful reset-password or change-password on the account.
C19_NoRevocation ==
    resp.op = "get_current_student" =>
        \A h \in held :
            /\ h.token = resp.req.token
            /\ \E st \in students : st.email = h.token.sub
            /\ clock < Get(h.token.exp)
            => /\ resp.status = 200
               /\ resp.body # None
               /\ Get(resp.body).email = h.token.sub
               /\ Get(resp.body) \in students

\* the token of the registration validates, later, to the account whose
\* password has been changed since
C19_Witness ==
    /\ resp.op = "get_current_student"
    /\ resp.status = 200
    /\ \E h \in held :
          /\ h.token = resp.req.token
          /\ clock > h.at
          /\ \E st \in students :
                /\ st.email = h.token.sub
                /\ ~verify_password(PwA, st.password_hash)

====
